---- MODULE Spec2Model ----
(***************************************************************************)
(* pyLSS: the LSS class of pylss/lss.py, one object per servo on a shared  *)
(* serial bus.  A byte is a one-character string; the token "0xFF" stands  *)
(* for a byte that is not valid UTF-8 on its own (0x80..0xFF), and "" is   *)
(* what bus.read() returns when its timeout expires.                       *)
(***************************************************************************)
EXTENDS Integers, Sequences, FiniteSets, TLC

\* ------------------------------------------------------------ characters

DigitChars == <<"0", "1", "2", "3", "4", "5", "6", "7", "8", "9">>

UpperSeq ==
    <<"A", "B", "C", "D", "E", "F", "G", "H", "I", "J", "K", "L", "M",
      "N", "O", "P", "Q", "R", "S", "T", "U", "V", "W", "X", "Y", "Z">>

LowerSeq ==
    <<"a", "b", "c", "d", "e", "f", "g", "h", "i", "j", "k", "l", "m",
      "n", "o", "p", "q", "r", "s", "t", "u", "v", "w", "x", "y", "z">>

UpperChars == {UpperSeq[i] : i \in 1..26}
LowerChars == {LowerSeq[i] : i \in 1..26}

\* regex \d on decoded text
IsDigit(c) == \E i \in 1..10 : DigitChars[i] = c

\* regex [A-Z] under re.I
IsLetter(c) == c \in UpperChars \cup LowerChars

DigitVal(c) == (CHOOSE i \in 1..10 : DigitChars[i] = c) - 1

\* bytes.decode("utf-8") of the bytes b raises UnicodeDecodeError
Undecodable(b) == \E i \in 1..Len(b) : b[i] = "0xFF"

\* constants.py
TIMEOUT_MS == 100
COMMAND_START == "#"
COMMAND_REPLY_START == "*"
COMMAND_END == "\r"

\* ------------------------------------------------------------ conversions

RECURSIVE NatToStr(_)
\* str(n) for n >= 0, as the f-string formats it
NatToStr(n) ==
    IF n < 10 THEN <<DigitChars[n + 1]>>
    ELSE NatToStr(n \div 10) \o <<DigitChars[(n % 10) + 1]>>

\* str(n) for an int
IntToStr(n) == IF n < 0 THEN <<"-">> \o NatToStr(0 - n) ELSE NatToStr(n)

RECURSIVE DigitsToNat(_)
DigitsToNat(s) ==
    IF s = <<>> THEN 0
    ELSE 10 * DigitsToNat(SubSeq(s, 1, Len(s) - 1)) + DigitVal(s[Len(s)])

\* int() losing the sign
StrToIntUnsigned(s) ==
    IF s[1] = "-" THEN DigitsToNat(Tail(s)) ELSE DigitsToNat(s)

\* int(read_value) for a read_value the pattern -?\d{1,18} has matched
StrToInt(s) ==
    IF s[1] = "-" THEN 0 - DigitsToNat(Tail(s)) ELSE DigitsToNat(s)

\* ------------------------------------------------------------ errors

ErrBus == "Serial bus is not available or not open"
ErrTimeout == "Timeout waiting for response to command"
ErrMalformed == "Malformed response for command"
ErrWrongId == "Response from wrong servo ID"
ErrMismatch == "Response command mismatch"
ErrUnicode == "'utf-8' codec can't decode byte"
ErrComm == "Communication error reading command"

\* the except clause of _read_int and _read_str: an exception whose text holds
\* "Serial bus", "Timeout", "Malformed" or "Response" is raised again as it is,
\* any other one is replaced by a communication error
ExceptFilter(e) ==
    IF e \in {ErrBus, ErrTimeout, ErrMalformed, ErrWrongId, ErrMismatch}
    THEN e
    ELSE ErrComm

\* ------------------------------------------------------------ outcomes

Raise(e, raw, rest) ==
    [kind |-> "raise", err |-> e, int |-> 0, str |-> <<>>, raw |-> raw,
     rest |-> rest]

ReturnInt(n, rest) ==
    [kind |-> "return", err |-> "", int |-> n, str |-> <<>>, raw |-> <<>>,
     rest |-> rest]

ReturnStr(s, rest) ==
    [kind |-> "return", err |-> "", int |-> 0, str |-> s, raw |-> <<>>,
     rest |-> rest]

\* ------------------------------------------------------------ channel reads

\* bus.read(): the next byte of the inbound stream; b"" when the read times
\* out, which is also what an exhausted stream gives
BusRead(stream) ==
    IF stream = <<>> THEN [c |-> "", rest |-> <<>>]
    ELSE [c |-> Head(stream), rest |-> Tail(stream)]

RECURSIVE DiscardLoop(_)
\* the body of "while c.decode() != '*'": read, test for b"", test the loop
\* condition again
DiscardLoop(stream) ==
    LET r == BusRead(stream) IN
    IF Undecodable(<<r.c>>) THEN [err |-> ErrUnicode, rest |-> r.rest]
    ELSE IF r.c = "" THEN [err |-> ErrTimeout, rest |-> r.rest]
    ELSE IF r.c = COMMAND_REPLY_START THEN [err |-> "", rest |-> r.rest]
    ELSE DiscardLoop(r.rest)

\* the search for the marker without its loop: the first byte starts the
\* reply or the call gives up
FindStartNoDiscard(stream) ==
    LET r == BusRead(stream) IN
    IF Undecodable(<<r.c>>) THEN [err |-> ErrUnicode, rest |-> r.rest]
    ELSE IF r.c = COMMAND_REPLY_START THEN [err |-> "", rest |-> r.rest]
    ELSE [err |-> ErrTimeout, rest |-> r.rest]

\* "Find start of packet": the first read is tested against the marker only
FindStart(stream) ==
    LET r == BusRead(stream) IN
    IF Undecodable(<<r.c>>) THEN [err |-> ErrUnicode, rest |-> r.rest]
    ELSE IF r.c = COMMAND_REPLY_START THEN [err |-> "", rest |-> r.rest]
    ELSE DiscardLoop(r.rest)

RECURSIVE ReadUntil(_)
\* bus.read_until(b"\r"): the bytes up to and including the terminator, or
\* the bytes that arrived before a read timed out
ReadUntil(stream) ==
    IF stream = <<>> THEN [data |-> <<>>, rest |-> <<>>]
    ELSE IF Head(stream) = "" THEN [data |-> <<>>, rest |-> Tail(stream)]
    ELSE IF Head(stream) = COMMAND_END
         THEN [data |-> <<COMMAND_END>>, rest |-> Tail(stream)]
    ELSE LET u == ReadUntil(Tail(stream)) IN
         [data |-> <<Head(stream)>> \o u.data, rest |-> u.rest]

\* ------------------------------------------------------------ reply grammar

\* the repetition bounds of (\d{1,3})([A-Z]{1,4})(-?\d{1,18})
IdDigits == 3
IdentLetters == 4
ValueDigits == 18

\* how many digits \d{0,max} takes at position p of s (greedy)
DigitRun(s, p, max) ==
    CHOOSE k \in 0..max :
        /\ \A t \in 1..k : p + t - 1 <= Len(s) /\ IsDigit(s[p + t - 1])
        /\ k = max \/ p + k > Len(s) \/ ~IsDigit(s[p + k])

\* the length -?\d{1,18} matches at position p of s, -1 when it does not
IntPayloadLen(s, p) ==
    IF p <= Len(s) /\ s[p] = "-"
    THEN IF DigitRun(s, p + 1, ValueDigits) >= 1
         THEN 1 + DigitRun(s, p + 1, ValueDigits) ELSE -1
    ELSE IF DigitRun(s, p, ValueDigits) >= 1
         THEN DigitRun(s, p, ValueDigits) ELSE -1

\* the length .{n} matches at position p of s, -1 when it does not
StrPayloadLen(s, p, n) ==
    IF p + n - 1 <= Len(s) /\ \A t \in p..(p + n - 1) : s[t] # "\n"
    THEN n ELSE -1

SetMax(S) == CHOOSE x \in S : \A y \in S : y <= x

\* the two reply patterns: the third group is -?\d{1,18} or .{num_chars}
IntPattern == [group |-> "int", n |-> 0]
StrPattern(num_chars) == [group |-> "str", n |-> num_chars]

\* the length the third group of the pattern matches at position p of s
PayloadLen(pattern, s, p) ==
    IF pattern.group = "int" THEN IntPayloadLen(s, p)
    ELSE StrPayloadLen(s, p, pattern.n)

\* re.match of (\d{1,3})([A-Z]{1,4})(payload) under re.I at the start of s:
\* the first match in the engine's order, both repetitions greedy
ReMatch(s, pattern) ==
    LET cand == {ij \in (1..IdDigits) \X (1..IdentLetters) :
                   /\ ij[1] + ij[2] <= Len(s)
                   /\ \A t \in 1..ij[1] : IsDigit(s[t])
                   /\ \A t \in (ij[1] + 1)..(ij[1] + ij[2]) : IsLetter(s[t])
                   /\ PayloadLen(pattern, s, ij[1] + ij[2] + 1) >= 0}
    IN  IF cand = {} THEN [ok |-> FALSE, id |-> <<>>, ident |-> <<>>,
                           value |-> <<>>]
        ELSE LET i == SetMax({ij[1] : ij \in cand})
                 j == SetMax({ij[2] : ij \in {c \in cand : c[1] = i}})
                 n == PayloadLen(pattern, s, i + j + 1)
             IN  [ok |-> TRUE, id |-> SubSeq(s, 1, i),
                  ident |-> SubSeq(s, i + 1, i + j),
                  value |-> SubSeq(s, i + j + 1, i + j + n)]

\* the verification without its test of the servo id
VerifyIdentOnly(read_id, read_ident, id, cmd) ==
    IF read_ident # cmd THEN ErrMismatch ELSE ""

\* the verification without its test of the command
VerifyIdOnly(read_id, read_ident, id, cmd) ==
    IF read_id # IntToStr(id) THEN ErrWrongId ELSE ""

\* the verification with its two tests in the other order
VerifyIdentFirst(read_id, read_ident, id, cmd) ==
    IF read_ident # cmd THEN ErrMismatch
    ELSE IF read_id # IntToStr(id) THEN ErrWrongId
    ELSE ""

\* "Verify response matches request": the id test comes first
Verify(read_id, read_ident, id, cmd) ==
    IF read_id # IntToStr(id) THEN ErrWrongId
    ELSE IF read_ident # cmd THEN ErrMismatch
    ELSE ""

\* ------------------------------------------------------------ LSS methods

\* the bus check testing "not self.bus" only
BusUnavailableNoneOnly(has_bus, open) == ~has_bus

\* "not self.bus or not self.bus.is_open"
BusUnavailable(has_bus, open) == ~has_bus \/ ~open

\* "{param}" of the f-string: param is <<>> for None, <<p>> for an int p and
\* <<"str", s>> for a str s
ParamText(param) ==
    IF Len(param) = 2 THEN param[2] ELSE IntToStr(param[1])

\* _write testing "if param" where the code tests "if param is None"
MessageDropsZero(id, cmd, param) ==
    IF param = <<>> \/ param = <<0>>
    THEN <<COMMAND_START>> \o IntToStr(id) \o cmd \o <<COMMAND_END>>
    ELSE <<COMMAND_START>> \o IntToStr(id) \o cmd \o ParamText(param)
             \o <<COMMAND_END>>

\* the f-string of _write
Message(id, cmd, param) ==
    IF param = <<>>
    THEN <<COMMAND_START>> \o IntToStr(id) \o cmd \o <<COMMAND_END>>
    ELSE <<COMMAND_START>> \o IntToStr(id) \o cmd \o ParamText(param)
             \o <<COMMAND_END>>

\* the one element of a set of one
TheOne(S) == CHOOSE x \in S : TRUE

\* _read_int from "if not matches" on, m being what re.match gave: the tests
\* of id and command, the value
IntOfMatch(id, cmd, data, rest, m) ==
    IF ~m.ok THEN Raise(ExceptFilter(ErrMalformed), data, rest)
    ELSE
    LET v == Verify(m.id, m.ident, id, cmd) IN
    IF v # "" THEN Raise(ExceptFilter(v), <<>>, rest)
    ELSE ReturnInt(StrToInt(m.value), rest)

\* _read_str from "if not matches" on
StrOfMatch(id, cmd, data, rest, m) ==
    IF ~m.ok THEN Raise(ExceptFilter(ErrMalformed), data, rest)
    ELSE
    LET v == Verify(m.id, m.ident, id, cmd) IN
    IF v # "" THEN Raise(ExceptFilter(v), <<>>, rest)
    ELSE ReturnStr(m.value, rest)

\* _read_int once read_until has given data: decoding, then the pattern,
\* matched once
ParseInt(id, cmd, data, rest) ==
    IF Undecodable(data) THEN Raise(ExceptFilter(ErrUnicode), <<>>, rest)
    ELSE TheOne({IntOfMatch(id, cmd, data, rest, m) :
                    m \in {ReMatch(data, IntPattern)}})

\* _read_str once read_until has given its bytes and the last one is cut
\* off: decoding, then the pattern, matched once
ParseStr(id, cmd, num_chars, data, rest) ==
    IF Undecodable(data) THEN Raise(ExceptFilter(ErrUnicode), <<>>, rest)
    ELSE TheOne({StrOfMatch(id, cmd, data, rest, m) :
                    m \in {ReMatch(data, StrPattern(num_chars))}})

\* LSS._read_int on the inbound stream
ReadInt(id, has_bus, open, cmd, stream) ==
    IF BusUnavailable(has_bus, open) THEN Raise(ErrBus, <<>>, stream)
    ELSE
    LET f == FindStart(stream) IN
    IF f.err # "" THEN Raise(ExceptFilter(f.err), <<>>, f.rest)
    ELSE
    LET u == ReadUntil(f.rest) IN
    ParseInt(id, cmd, u.data, u.rest)

\* LSS._read_str on the inbound stream
ReadStr(id, has_bus, open, cmd, num_chars, stream) ==
    IF BusUnavailable(has_bus, open) THEN Raise(ErrBus, <<>>, stream)
    ELSE
    LET f == FindStart(stream) IN
    IF f.err # "" THEN Raise(ExceptFilter(f.err), <<>>, f.rest)
    ELSE
    LET u == ReadUntil(f.rest) IN
    ParseStr(id, cmd, num_chars, SubSeq(u.data, 1, Len(u.data) - 1), u.rest)

\* ------------------------------------------------------------ inputs

\* command tokens of constants.py, as byte sequences
RESET == <<"R", "E", "S", "E", "T">>
MOVE == <<"D">>
POSITION == <<"Q", "D">>
MODEL_STRING == <<"Q", "M", "S">>

\* the LSS objects of the model and their constructor arguments; the bus
\* argument is the one shared serial channel or None
LSSObjects == {"a", "b", "c"}

InitArgs ==
    [a |-> [servo_id |-> 5, bus |-> "serial"],
     b |-> [servo_id |-> 254, bus |-> "serial"],
     c |-> [servo_id |-> 12, bus |-> "None"]]

WriteCmds == {MOVE, RESET}
WriteParams == {<<>>, <<0>>, <<1500>>, <<-450>>}
ReadCmds == {POSITION, MODEL_STRING}
\* num_chars of get_model
ModelStringLen == 7
StrLens == {4, ModelStringLen}

\* the longest run of bytes that arrive before the start marker
MaxGarbage == 2
\* how many messages the outbound log holds
MaxWrites == 1
\* how many chunks of bytes arrive on the channel
MaxChunks == 1

\* what a read can meet before the start marker: a text byte, a byte that is
\* not UTF-8, a read that times out
GarbageReads == {"x", "0xFF", ""}

RECURSIVE SeqsUpTo(_, _)
SeqsUpTo(S, n) ==
    IF n = 0 THEN {<<>>}
    ELSE LET shorter == SeqsUpTo(S, n - 1) IN
         shorter \cup {Append(q, x) : q \in shorter, x \in S}

Prefixes == SeqsUpTo(GarbageReads, MaxGarbage)

Zeros16 ==
    <<"0", "0", "0", "0", "0", "0", "0", "0",
      "0", "0", "0", "0", "0", "0", "0", "0">>

IdFields ==
    {<<"5">>, <<"2", "5", "4">>, <<"7">>, <<"1", "2", "3", "4">>, <<>>}

IdentFields ==
    {POSITION, <<"q", "d">>, MODEL_STRING, <<"A", "B", "C", "D", "E">>, <<>>}

PayloadFields ==
    {<<"1", "2", "3", "4">>, <<"-", "9", "0", "0">>, <<"-">>, <<>>,
     <<"L", "S", "S", "-", "S", "T", "1">>,
     <<"L", "S", "S", "\n", "S", "T", "1">>,
     Zeros16 \o <<"4", "2">>, Zeros16 \o <<"0", "4", "2">>}

TrailerFields ==
    {<<>>, <<"X", "Y", "Z">>, <<"*", "5", "Q", "D", "3", "4">>}

\* one reply frame as it arrives: marker, fields, terminator
Frames ==
    {<<COMMAND_REPLY_START>> \o i \o c \o p \o t \o <<COMMAND_END>> :
        i \in IdFields, c \in IdentFields, p \in PayloadFields,
        t \in TrailerFields}

\* a reply cut short: read_until times out before a terminator arrives
PartialFrames ==
    {<<COMMAND_REPLY_START>> \o i \o c \o p :
        i \in IdFields, c \in IdentFields, p \in PayloadFields}

\* inbound streams of the decoder specification
Streams ==
    Prefixes \cup {g \o f : g \in Prefixes, f \in Frames \cup PartialFrames}

\* what arrives in one piece on the channel of the session specification
Chunks ==
    {<<"*", "5", "Q", "D", "1", "2", "3", "4", "\r">>,
     <<"*", "5", "Q", "M", "S", "L", "S", "S", "-", "S", "T", "1", "\r">>,
     <<"x">>}

\* ------------------------------------------------------------ state

VARIABLES
    servo_id,   \* self.servo_id of each LSS object
    bus,        \* self.bus of each LSS object: "serial" or "None"
    is_open,    \* bus.is_open of the serial channel
    timeout,    \* bus.timeout of the serial channel
    rx,         \* what the channel's reads will meet, in order
    tx,         \* the messages passed to bus.write, in order
    received,   \* how many chunks have arrived
    call        \* the last call that completed, with its outcome

vars == <<servo_id, bus, is_open, timeout, rx, tx, received, call>>

NoCall ==
    [op |-> "none", self |-> "a", cmd |-> <<>>, param |-> <<>>,
     num_chars |-> 0, input |-> <<>>, kind |-> "return", err |-> "",
     int |-> 0, str |-> <<>>, raw |-> <<>>, written |-> <<>>]

Done(op, o, cmd, param, n, r, written) ==
    [op |-> op, self |-> o, cmd |-> cmd, param |-> param, num_chars |-> n,
     input |-> rx, kind |-> r.kind, err |-> r.err, int |-> r.int,
     str |-> r.str, raw |-> r.raw, written |-> written]

\* LSS.__init__ without its "self.bus.timeout = TIMEOUT_MS"
ConstructedNoTimeout ==
    /\ servo_id = [o \in LSSObjects |-> InitArgs[o].servo_id]
    /\ bus = [o \in LSSObjects |-> InitArgs[o].bus]
    /\ is_open = TRUE
    /\ timeout = 0
    /\ tx = <<>>
    /\ received = 0
    /\ call = NoCall

\* LSS.__init__ of every object, on an open channel
Constructed ==
    /\ servo_id = [o \in LSSObjects |-> InitArgs[o].servo_id]
    /\ bus = [o \in LSSObjects |-> InitArgs[o].bus]
    /\ is_open = TRUE
    /\ timeout = TIMEOUT_MS
    /\ tx = <<>>
    /\ received = 0
    /\ call = NoCall

Init == Constructed /\ rx = <<>>

InitDecode == Constructed /\ rx \in Streams

HasBus(o) == bus[o] # "None"

\* LSS._write
Write(o, cmd, param) ==
    /\ Len(tx) < MaxWrites
    /\ IF BusUnavailable(HasBus(o), is_open)
       THEN /\ tx' = tx
            /\ call' = Done("_write", o, cmd, param, 0,
                            Raise(ErrBus, <<>>, rx), <<>>)
       ELSE /\ tx' = Append(tx, Message(servo_id[o], cmd, param))
            /\ call' = Done("_write", o, cmd, param, 0, ReturnStr(<<>>, rx),
                            <<Message(servo_id[o], cmd, param)>>)
    /\ UNCHANGED <<servo_id, bus, is_open, timeout, rx, received>>

\* LSS._read_int
ReadIntCall(o, cmd) ==
    LET r == ReadInt(servo_id[o], HasBus(o), is_open, cmd, rx) IN
    /\ rx' = r.rest
    /\ call' = Done("_read_int", o, cmd, <<>>, 0, r, <<>>)
    /\ UNCHANGED <<servo_id, bus, is_open, timeout, tx, received>>

\* LSS._read_str
ReadStrCall(o, cmd, num_chars) ==
    LET r == ReadStr(servo_id[o], HasBus(o), is_open, cmd, num_chars, rx) IN
    /\ rx' = r.rest
    /\ call' = Done("_read_str", o, cmd, <<>>, num_chars, r, <<>>)
    /\ UNCHANGED <<servo_id, bus, is_open, timeout, tx, received>>

\* LSS.__del__ calling bus.close() without looking at bus.is_open
DelAlwaysCloses(o) ==
    /\ is_open' = IF HasBus(o) THEN FALSE ELSE is_open
    /\ call' = Done("__del__", o, <<>>, <<>>, 0,
                    ReturnInt(IF HasBus(o) THEN 1 ELSE 0, rx), <<>>)
    /\ UNCHANGED <<servo_id, bus, timeout, rx, tx, received>>

\* LSS.__del__; the int of its outcome counts its calls of bus.close()
Del(o) ==
    /\ is_open' = IF HasBus(o) /\ is_open THEN FALSE ELSE is_open
    /\ call' = Done("__del__", o, <<>>, <<>>, 0,
                    ReturnInt(IF HasBus(o) /\ is_open THEN 1 ELSE 0, rx),
                    <<>>)
    /\ UNCHANGED <<servo_id, bus, timeout, rx, tx, received>>

\* bytes arrive on the channel
Receive(chunk) ==
    /\ received < MaxChunks
    /\ is_open
    /\ rx' = rx \o chunk
    /\ received' = received + 1
    /\ UNCHANGED <<servo_id, bus, is_open, timeout, tx, call>>

Next ==
    \/ \E o \in LSSObjects, cmd \in WriteCmds, p \in WriteParams :
          Write(o, cmd, p)
    \/ \E o \in LSSObjects : ReadIntCall(o, POSITION)
    \/ \E o \in LSSObjects : ReadStrCall(o, MODEL_STRING, ModelStringLen)
    \/ \E o \in LSSObjects : Del(o)
    \/ \E chunk \in Chunks : Receive(chunk)

Spec == Init /\ [][Next]_vars

\* one read on each inbound stream
NextDecode ==
    \/ \E o \in LSSObjects, cmd \in ReadCmds :
          call.op = "none" /\ ReadIntCall(o, cmd)
    \/ \E o \in LSSObjects, cmd \in ReadCmds, n \in StrLens :
          call.op = "none" /\ ReadStrCall(o, cmd, n)

SpecDecode == InitDecode /\ [][NextDecode]_vars

\* ------------------------------------------------------------ requests sent back

CONFIG_COLOR_LED == <<"C", "L", "E", "D">>

\* the longest message the protocol allows, its '\r' included
MAX_TOTAL_COMMAND_LENGTH == 31

\* the decimal text of 10^32: an int too large for the integers of the model
\* reaches the f-string as its text, which is what a str parameter does
BigNumeral == <<"1">> \o Zeros16 \o Zeros16

EncodeCmds == {MOVE, POSITION, MODEL_STRING, CONFIG_COLOR_LED, RESET}
EncodeParams == WriteParams \cup {<<"str", BigNumeral>>}

\* the reply of a device that sends the body of the last request back, which
\* is what decoding an encoded request reads
Echo ==
    /\ call.op = "_write" /\ call.kind = "return"
    /\ Len(call.param) <= 1
    /\ received = 0
    /\ Receive(<<COMMAND_REPLY_START>> \o Tail(tx[Len(tx)]))

\* one request, sent back, and one read of it
NextEncode ==
    \/ \E o \in LSSObjects, cmd \in EncodeCmds, p \in EncodeParams :
          call.op = "none" /\ Write(o, cmd, p)
    \/ Echo
    \/ \E o \in LSSObjects, cmd \in EncodeCmds :
          call.op = "_write" /\ received > 0 /\ ReadIntCall(o, cmd)

SpecEncode == Init /\ [][NextEncode]_vars

\* ------------------------------------------------------------ queries

STATUS == <<"Q">>
POSITION_PULSE == <<"Q", "P">>
VOLTAGE == <<"Q", "V">>

\* the queries made of one _write and one _read_int of the same token:
\* get_status, get_position_pulse, get_voltage
QueryCmds == {STATUS, POSITION_PULSE, VOLTAGE}

\* how many queries a session history holds
MaxQueries == 2

\* what the servo with the given id holds for a query; it does not change
DeviceState(id, cmd) ==
    IF cmd = STATUS THEN 6
    ELSE IF cmd = VOLTAGE THEN 12000
    ELSE IF id = 5 THEN 1234 ELSE -900

\* the one reply of the servo to a query
DeviceReply(id, cmd) ==
    <<COMMAND_REPLY_START>> \o IntToStr(id) \o cmd
        \o IntToStr(DeviceState(id, cmd)) \o <<COMMAND_END>>

\* stray bytes on the line
NoiseChunks == {<<"x">>, <<"x", "\r">>}

\* get_status, get_position_pulse, get_voltage: _write, then _read_int of
\* what the channel holds once the servo has answered
QueryInt(o, cmd) ==
    /\ Len(tx) < MaxQueries
    /\ IF BusUnavailable(HasBus(o), is_open)
       THEN /\ tx' = tx
            /\ rx' = rx
            /\ call' = Done("query", o, cmd, <<>>, 0,
                            Raise(ErrBus, <<>>, rx), <<>>)
       ELSE LET msg == Message(servo_id[o], cmd, <<>>)
                stream == rx \o DeviceReply(servo_id[o], cmd)
                r == ReadInt(servo_id[o], HasBus(o), is_open, cmd, stream)
            IN  /\ tx' = Append(tx, msg)
                /\ rx' = r.rest
                /\ call' = [Done("query", o, cmd, <<>>, 0, r, <<msg>>)
                               EXCEPT !.input = stream]
    /\ UNCHANGED <<servo_id, bus, is_open, timeout, received>>

NextQuery ==
    \/ \E o \in LSSObjects, cmd \in QueryCmds : QueryInt(o, cmd)
    \/ \E chunk \in NoiseChunks : Receive(chunk)

SpecQuery == Init /\ [][NextQuery]_vars

\* ------------------------------------------------------------ command tables

\* the Action table: name |-> wire token
Action ==
    [RESET |-> <<"R", "E", "S", "E", "T">>,
     LIMP |-> <<"L">>,
     HOLD |-> <<"H">>,
     PARAMETER_TIME |-> <<"T">>,
     PARAMETER_SPEED |-> <<"S">>,
     MOVE |-> <<"D">>,
     MOVE_RELATIVE |-> <<"M", "D">>,
     WHEEL |-> <<"W", "D">>,
     WHEEL_RPM |-> <<"W", "R">>,
     ORIGIN_OFFSET |-> <<"O">>,
     ANGULAR_RANGE |-> <<"A", "R">>,
     MAX_SPEED |-> <<"S", "D">>,
     MAX_SPEED_RPM |-> <<"S", "R">>,
     COLOR_LED |-> <<"L", "E", "D">>,
     GYRE_DIRECTION |-> <<"G">>,
     ANGULAR_STIFFNESS |-> <<"A", "S">>,
     ANGULAR_HOLDING_STIFFNESS |-> <<"A", "H">>,
     ANGULAR_ACCELERATION |-> <<"A", "A">>,
     ANGULAR_DECELERATION |-> <<"A", "D">>,
     ENABLE_MOTION_CONTROL |-> <<"E", "M">>]

\* the Query table: name |-> wire token
Query ==
    [STATUS |-> <<"Q">>,
     ORIGIN_OFFSET |-> <<"Q", "O">>,
     ANGULAR_RANGE |-> <<"Q", "A", "R">>,
     POSITION_PULSE |-> <<"Q", "P">>,
     POSITION |-> <<"Q", "D">>,
     SPEED |-> <<"Q", "W", "D">>,
     SPEED_RPM |-> <<"Q", "W", "R">>,
     SPEED_PULSE |-> <<"Q", "S">>,
     MAX_SPEED |-> <<"Q", "S", "D">>,
     MAX_SPEED_RPM |-> <<"Q", "S", "R">>,
     COLOR_LED |-> <<"Q", "L", "E", "D">>,
     GYRE |-> <<"Q", "G">>,
     ID |-> <<"Q", "I", "D">>,
     BAUD |-> <<"Q", "B">>,
     FIRST_POSITION |-> <<"Q", "F", "D">>,
     MODEL_STRING |-> <<"Q", "M", "S">>,
     SERIAL_NUMBER |-> <<"Q", "N">>,
     FIRMWARE_VERSION |-> <<"Q", "F">>,
     VOLTAGE |-> <<"Q", "V">>,
     TEMPERATURE |-> <<"Q", "T">>,
     CURRENT |-> <<"Q", "C">>,
     ANGULAR_STIFFNESS |-> <<"Q", "A", "S">>,
     ANGULAR_HOLDING_STIFFNESS |-> <<"Q", "A", "H">>,
     ANGULAR_ACCELERATION |-> <<"Q", "A", "A">>,
     ANGULAR_DECELERATION |-> <<"Q", "A", "D">>,
     ENABLE_MOTION_CONTROL |-> <<"Q", "E", "M">>,
     BLINKING_LED |-> <<"Q", "L", "B">>]

\* the Config table: name |-> wire token
Config ==
    [ID |-> <<"C", "I", "D">>,
     BAUD |-> <<"C", "B">>,
     ORIGIN_OFFSET |-> <<"C", "O">>,
     ANGULAR_RANGE |-> <<"C", "A", "R">>,
     MAX_SPEED |-> <<"C", "S", "D">>,
     MAX_SPEED_RPM |-> <<"C", "S", "R">>,
     COLOR_LED |-> <<"C", "L", "E", "D">>,
     GYRE_DIRECTION |-> <<"C", "G">>,
     FIRST_POSITION |-> <<"C", "F", "D">>,
     MODE |-> <<"C", "R", "C">>,
     ANGULAR_STIFFNESS |-> <<"C", "A", "S">>,
     ANGULAR_HOLDING_STIFFNESS |-> <<"C", "A", "H">>,
     ANGULAR_ACCELERATION |-> <<"C", "A", "A">>,
     ANGULAR_DECELERATION |-> <<"C", "A", "D">>,
     BLINKING_LED |-> <<"C", "L", "B">>]

FIRST_POSITION_DISABLED == <<"D", "I", "S">>

\* ------------------------------------------------------------ public operations

\* how many requests a history of public operations holds
MaxOps == 2

\* the text of result / 10.0, result an int of the range a reply holds
DivTen(result) ==
    LET a == IF result < 0 THEN -result ELSE result IN
    (IF result < 0 THEN <<"-">> ELSE <<>>)
        \o NatToStr(a \div 10) \o <<".">> \o NatToStr(a % 10)

\* a reply frame as a servo puts it on the line
ReplyFrame(id, cmd, payload) ==
    <<COMMAND_REPLY_START>> \o IntToStr(id) \o cmd \o payload
        \o <<COMMAND_END>>

\* what a servo holds for a query: a number, its model, or, for the first
\* position, the marker of a first position that is disabled
AnswerPayloads(cmd) ==
    IF cmd = Query.MODEL_STRING THEN {<<"L", "S", "S", "-", "S", "T", "1">>}
    ELSE IF cmd = Query.FIRST_POSITION
         THEN {<<"4", "5", "0">>, <<"-", "5">>, FIRST_POSITION_DISABLED}
         ELSE {<<"6">>}

\* what the line brings after a request: the reply of the servo addressed,
\* nothing at all, or the reply of another servo
Answers(id, cmd) ==
    {ReplyFrame(id, cmd, p) : p \in AnswerPayloads(cmd)}
        \cup {<<>>, ReplyFrame(7, cmd, <<"0">>)}

\* one statement of a public method: its outcome r, the messages it wrote,
\* and io, its calls of bus.write and its read attempts in order

\* self._write(cmd, param)
WriteStep(o, cmd, param) ==
    IF BusUnavailable(HasBus(o), is_open)
    THEN [r |-> Raise(ErrBus, <<>>, rx), written |-> <<>>, io |-> <<>>]
    ELSE [r |-> ReturnStr(<<>>, rx),
          written |-> <<Message(servo_id[o], cmd, param)>>,
          io |-> <<"write">>]

\* self._read_int(cmd)
ReadIntStep(o, cmd, stream) ==
    [r |-> ReadInt(servo_id[o], HasBus(o), is_open, cmd, stream),
     written |-> <<>>,
     io |-> IF BusUnavailable(HasBus(o), is_open) THEN <<>> ELSE <<"read">>]

\* self._read_str(cmd, num_chars)
ReadStrStep(o, cmd, num_chars, stream) ==
    [r |-> ReadStr(servo_id[o], HasBus(o), is_open, cmd, num_chars, stream),
     written |-> <<>>,
     io |-> IF BusUnavailable(HasBus(o), is_open) THEN <<>> ELSE <<"read">>]

\* two statements in a row: the second runs unless the first raised
AndThen(first, second) ==
    IF first.r.kind = "raise" THEN first
    ELSE [r |-> second.r, written |-> first.written \o second.written,
          io |-> first.io \o second.io]

\* a query that gives up its first read and asks again
WriteReadRetry(o, cmd, answer) ==
    LET once == AndThen(WriteStep(o, cmd, <<>>),
                        ReadIntStep(o, cmd, rx \o answer))
    IN  IF once.r.err = ErrTimeout
        THEN [r |-> ReadInt(servo_id[o], HasBus(o), is_open, cmd,
                            once.r.rest \o answer),
              written |-> once.written \o once.written,
              io |-> once.io \o once.io]
        ELSE once

\* self._write(cmd); self._read_int(cmd), the line bringing answer between
WriteRead(o, cmd, answer) ==
    AndThen(WriteStep(o, cmd, <<>>), ReadIntStep(o, cmd, rx \o answer))

\* "try: ...; return True / except Exception: return False"
TryExcept(x) ==
    IF x.r.kind = "raise"
    THEN ReturnStr(<<"F", "a", "l", "s", "e">>, x.r.rest)
    ELSE ReturnStr(<<"T", "r", "u", "e">>, x.r.rest)

\* "return result / 10.0" after a _read_int that raised or returned
ReturnDivTen(r) ==
    IF r.kind = "raise" THEN r ELSE ReturnStr(DivTen(r.int), r.rest)

\* a public method has run: x is what its statements did, r what it gave
\* its caller, input what its read met; inner is the error of the statement
\* that raised, if one did
Performed(op, o, cmd, param, x, r, input) ==
    /\ tx' = tx \o x.written
    /\ rx' = r.rest
    /\ call' = [op |-> op, self |-> o, cmd |-> cmd, param |-> param,
                num_chars |-> 0, input |-> input, kind |-> r.kind,
                err |-> r.err, int |-> r.int, str |-> r.str, raw |-> r.raw,
                written |-> x.written, io |-> x.io, inner |-> x.r.err]
    /\ UNCHANGED <<servo_id, bus, is_open, timeout, received>>

\* LSS.get_status
get_status(o, answer) ==
    LET x == WriteRead(o, Query.STATUS, answer) IN
    /\ Len(tx) < MaxOps
    /\ Performed("get_status", o, Query.STATUS, <<>>, x, x.r, rx \o answer)

\* LSS.get_first_position_deg
get_first_position_deg(o, answer) ==
    LET x == WriteRead(o, Query.FIRST_POSITION, answer) IN
    /\ Len(tx) < MaxOps
    /\ Performed("get_first_position_deg", o, Query.FIRST_POSITION, <<>>, x,
                 ReturnDivTen(x.r), rx \o answer)

\* LSS.get_is_first_position_enabled
get_is_first_position_enabled(o, answer) ==
    LET x == WriteRead(o, Query.FIRST_POSITION, answer) IN
    /\ Len(tx) < MaxOps
    /\ Performed("get_is_first_position_enabled", o, Query.FIRST_POSITION,
                 <<>>, x, TryExcept(x), rx \o answer)

\* LSS.get_model
get_model(o, answer) ==
    LET x == AndThen(WriteStep(o, Query.MODEL_STRING, <<>>),
                     ReadStrStep(o, Query.MODEL_STRING, ModelStringLen,
                                 rx \o answer))
    IN  /\ Len(tx) < MaxOps
        /\ Performed("get_model", o, Query.MODEL_STRING, <<>>, x, x.r,
                     rx \o answer)

\* LSS.reset
reset(o) ==
    LET x == WriteStep(o, Action.RESET, <<>>) IN
    /\ Len(tx) < MaxOps
    /\ Performed("reset", o, Action.RESET, <<>>, x, x.r, rx)

\* LSS.wheel_rpm
wheel_rpm(o, rpm) ==
    LET x == WriteStep(o, Action.WHEEL_RPM, <<rpm>>) IN
    /\ Len(tx) < MaxOps
    /\ Performed("wheel_rpm", o, Action.WHEEL_RPM, <<rpm>>, x, x.r, rx)

\* LSS.set_color_led
set_color_led(o, color, set_type) ==
    LET cmd == IF set_type = "SESSION" THEN Action.COLOR_LED
               ELSE Config.COLOR_LED
        x == WriteStep(o, cmd, <<color>>)
    IN  /\ Len(tx) < MaxOps
        /\ Performed("set_color_led", o, cmd, <<color>>, x, x.r, rx)

\* LSS.clear_first_position
clear_first_position(o) ==
    LET x == WriteStep(o, Config.FIRST_POSITION, <<>>) IN
    /\ Len(tx) < MaxOps
    /\ Performed("clear_first_position", o, Config.FIRST_POSITION, <<>>, x,
                 x.r, rx)

QueryOps ==
    {"get_status", "get_first_position_deg",
     "get_is_first_position_enabled", "get_model"}

SendOps == {"reset", "wheel_rpm", "set_color_led", "clear_first_position"}

NextOps ==
    \/ \E o \in LSSObjects : \E a \in Answers(servo_id[o], Query.STATUS) :
          get_status(o, a)
    \/ \E o \in LSSObjects :
          \E a \in Answers(servo_id[o], Query.FIRST_POSITION) :
             get_first_position_deg(o, a)
    \/ \E o \in LSSObjects :
          \E a \in Answers(servo_id[o], Query.FIRST_POSITION) :
             get_is_first_position_enabled(o, a)
    \/ \E o \in LSSObjects :
          \E a \in Answers(servo_id[o], Query.MODEL_STRING) : get_model(o, a)
    \/ \E o \in LSSObjects : reset(o)
    \/ \E o \in LSSObjects, rpm \in {-30, 0} : wheel_rpm(o, rpm)
    \/ \E o \in LSSObjects, set_type \in {"SESSION", "CONFIG"} :
          set_color_led(o, 3, set_type)
    \/ \E o \in LSSObjects : clear_first_position(o)
    \/ \E o \in LSSObjects : Del(o)

SpecOps == Init /\ [][NextOps]_vars

\* ------------------------------------------------------------ tokens on the wire

\* every wire token of the three tables
Tokens ==
    {Action[n] : n \in DOMAIN Action} \cup {Query[n] : n \in DOMAIN Query}
        \cup {Config[n] : n \in DOMAIN Config}

\* the servo answers the request just written with a reply frame that
\* carries the request's token and a value
TokenReply ==
    /\ call.op = "_write" /\ call.kind = "return"
    /\ Receive(ReplyFrame(servo_id[call.self], call.cmd, <<"0">>))

\* each token is sent by _write, answered, and the answer read by _read_int
NextTokens ==
    \/ \E o \in LSSObjects, cmd \in Tokens : Write(o, cmd, <<>>)
    \/ TokenReply
    \/ /\ call.op = "_write" /\ received > 0
       /\ ReadIntCall(call.self, call.cmd)

SpecTokens == Init /\ [][NextTokens]_vars

\* ------------------------------------------------------------ the read loop, statement by statement

\* a call of _read_int or _read_str that is under way: pc is the statement
\* it is at, c the byte the last bus.read() gave, input what the channel
\* held when it began
Running(op, o, cmd, n, input, pc, c) ==
    [op |-> op, self |-> o, cmd |-> cmd, param |-> <<>>, num_chars |-> n,
     input |-> input, kind |-> "running", err |-> "", int |-> 0,
     str |-> <<>>, raw |-> <<>>, written |-> <<>>, pc |-> pc, c |-> c]

\* the call has returned or raised
Finished(r) ==
    [call EXCEPT !.kind = r.kind, !.err = r.err, !.int = r.int,
                 !.str = r.str, !.raw = r.raw, !.pc = "done"]

\* the streams a call of the loop may meet: stray bytes and timeouts, then
\* nothing, a bare marker, a reply, or a reply cut short
LoopStreams ==
    {g \o f : g \in {<<>>, <<"x">>, <<"">>, <<"0xFF">>, <<"x", "y", "x">>},
              f \in {<<>>, <<"*">>,
                     <<"*", "5", "Q", "D", "-", "7", "\r">>,
                     <<"*", "5", "Q", "D", "1">>}}

\* "while c.decode('utf-8') != COMMAND_REPLY_START": the decoding fails,
\* the loop is left, or its body runs
WhileTest(c) ==
    IF Undecodable(<<c>>) THEN "raise"
    ELSE IF c = COMMAND_REPLY_START THEN "exit" ELSE "body"

\* the loop body without its test for b""
BodyTestNoTimeout(c) ==
    IF Undecodable(<<c>>) THEN ErrUnicode ELSE ""

\* "if c.decode('utf-8') == '': raise Exception(Timeout ...)" of the body
BodyTest(c) ==
    IF Undecodable(<<c>>) THEN ErrUnicode
    ELSE IF c = "" THEN ErrTimeout ELSE ""

\* the call begins: the test of the bus
Enter(o, op, cmd, n) ==
    /\ call.op = "none"
    /\ call' = IF BusUnavailable(HasBus(o), is_open)
               THEN [Running(op, o, cmd, n, rx, "done", "")
                        EXCEPT !.kind = "raise", !.err = ErrBus]
               ELSE Running(op, o, cmd, n, rx, "read", "")
    /\ UNCHANGED <<servo_id, bus, is_open, timeout, rx, tx, received>>

\* "c = self.bus.read()" before the loop
ReadFirst ==
    /\ call.kind = "running" /\ call.pc = "read"
    /\ LET b == BusRead(rx) IN
       /\ rx' = b.rest
       /\ call' = [call EXCEPT !.c = b.c, !.pc = "while"]
    /\ UNCHANGED <<servo_id, bus, is_open, timeout, tx, received>>

\* the loop condition
LoopTest ==
    /\ call.kind = "running" /\ call.pc = "while"
    /\ call' = IF WhileTest(call.c) = "raise"
               THEN Finished(Raise(ExceptFilter(ErrUnicode), <<>>, rx))
               ELSE IF WhileTest(call.c) = "exit"
                    THEN [call EXCEPT !.pc = "read_until"]
                    ELSE [call EXCEPT !.pc = "body"]
    /\ UNCHANGED <<servo_id, bus, is_open, timeout, rx, tx, received>>

\* the loop body: "c = self.bus.read()" and its test
LoopBody ==
    /\ call.kind = "running" /\ call.pc = "body"
    /\ LET b == BusRead(rx) IN
       /\ rx' = b.rest
       /\ call' = IF BodyTest(b.c) # ""
                  THEN [Finished(Raise(ExceptFilter(BodyTest(b.c)), <<>>,
                                       b.rest))
                           EXCEPT !.c = b.c]
                  ELSE [call EXCEPT !.c = b.c, !.pc = "while"]
    /\ UNCHANGED <<servo_id, bus, is_open, timeout, tx, received>>

\* "data = self.bus.read_until(COMMAND_END)", and its "[:-1]" in _read_str
ReadFrame ==
    /\ call.kind = "running" /\ call.pc = "read_until"
    /\ \E u \in {ReadUntil(rx)} :
          /\ rx' = u.rest
          /\ call' = [call EXCEPT !.pc = "parse",
                         !.raw = IF call.op = "_read_int" THEN u.data
                                 ELSE SubSeq(u.data, 1, Len(u.data) - 1)]
    /\ UNCHANGED <<servo_id, bus, is_open, timeout, tx, received>>

\* the statements after the read: decoding, the pattern, the tests of id
\* and command, the value
ParseFrame ==
    /\ call.kind = "running" /\ call.pc = "parse"
    /\ \E r \in {IF call.op = "_read_int"
                 THEN ParseInt(servo_id[call.self], call.cmd, call.raw, rx)
                 ELSE ParseStr(servo_id[call.self], call.cmd,
                               call.num_chars, call.raw, rx)} :
          call' = Finished(r)
    /\ UNCHANGED <<servo_id, bus, is_open, timeout, rx, tx, received>>

InitLoop == Constructed /\ rx \in LoopStreams

NextLoop ==
    \/ \E o \in LSSObjects : Enter(o, "_read_int", POSITION, 0)
    \/ \E o \in LSSObjects : Enter(o, "_read_str", POSITION, 4)
    \/ ReadFirst
    \/ LoopTest
    \/ LoopBody
    \/ ReadFrame
    \/ ParseFrame
    \/ \E chunk \in NoiseChunks : Receive(chunk)

\* a call under way goes on: every bus.read() and the read_until return
\* within the channel's timeout, and nothing else holds a statement back
SpecLoop ==
    InitLoop /\ [][NextLoop]_vars
        /\ WF_vars(ReadFirst \/ LoopTest \/ LoopBody \/ ReadFrame \/ ParseFrame)

\* ------------------------------------------------------------ servos on a shared line

\* the queries the sessions of the shared line make
SharedCmds == {STATUS, POSITION_PULSE}

\* the reply of a servo to the k-th request written on the line: it carries
\* the id and the command of that request, and k as its value, so that no
\* two replies of a history are the same
ReplyFor(msg, k) ==
    TheOne({ReplyFrame(servo_id[o], cmd, NatToStr(k)) :
               <<o, cmd>> \in {oc \in LSSObjects \X SharedCmds :
                   Message(servo_id[oc[1]], oc[2], <<>>) = msg}})

ReplyTo(k) == ReplyFor(tx[k], k)

\* a session sends a query: _write(cmd)
Request(o, cmd) ==
    LET x == WriteStep(o, cmd, <<>>) IN
    /\ Len(tx) < MaxQueries
    /\ tx' = tx \o x.written
    /\ call' = Done("_write", o, cmd, <<>>, 0, x.r, x.written)
    /\ UNCHANGED <<servo_id, bus, is_open, timeout, rx, received>>

\* the servo addressed answers the oldest request not answered yet, at
\* once or after the session has given up waiting
ServoAnswers ==
    /\ received < Len(tx)
    /\ is_open
    /\ rx' = rx \o ReplyTo(received + 1)
    /\ received' = received + 1
    /\ UNCHANGED <<servo_id, bus, is_open, timeout, tx, call>>

RECURSIVE RepliesFrom(_, _)
\* the replies to the requests k, k + 1, ... of the history t, in a row
RepliesFrom(t, k) ==
    IF k > Len(t) THEN <<>>
    ELSE ReplyFor(t[k], k) \o RepliesFrom(t, k + 1)

\* get_status, get_position_pulse: _write(cmd), then _read_int(cmd);
\* the servo answers before the read gives up (after the replies that were
\* still under way), or it does not
QueryOnLine(o, cmd, in_time) ==
    /\ Len(tx) < MaxQueries
    /\ IF BusUnavailable(HasBus(o), is_open)
       THEN /\ tx' = tx
            /\ rx' = rx
            /\ received' = received
            /\ call' = Done("query", o, cmd, <<>>, 0,
                            Raise(ErrBus, <<>>, rx), <<>>)
       ELSE LET msg == Message(servo_id[o], cmd, <<>>)
                stream == IF in_time
                          THEN rx \o RepliesFrom(Append(tx, msg),
                                                 received + 1)
                          ELSE rx
                r == ReadInt(servo_id[o], HasBus(o), is_open, cmd, stream)
            IN  /\ tx' = Append(tx, msg)
                /\ rx' = r.rest
                /\ received' = IF in_time THEN Len(tx) + 1 ELSE received
                /\ call' = [Done("query", o, cmd, <<>>, 0, r, <<msg>>)
                               EXCEPT !.input = stream]
    /\ UNCHANGED <<servo_id, bus, is_open, timeout>>

NextLate ==
    \/ \E o \in LSSObjects, cmd \in SharedCmds, in_time \in BOOLEAN :
          QueryOnLine(o, cmd, in_time)
    \/ ServoAnswers

SpecLate == Init /\ [][NextLate]_vars

NextShared ==
    \/ \E o \in LSSObjects, cmd \in SharedCmds : Request(o, cmd)
    \/ ServoAnswers
    \/ \E o \in LSSObjects, cmd \in SharedCmds : ReadIntCall(o, cmd)

SpecShared == Init /\ [][NextShared]_vars

\* ------------------------------------------------------------ reading the claims

\* a byte that arrived and decodes as text
IsText(c) == c # "" /\ c # "0xFF"

AllDigits(d) == \A i \in 1..Len(d) : IsDigit(d[i])
AllLetters(d) == \A i \in 1..Len(d) : IsLetter(d[i])

RECURSIVE Horner(_, _)
Horner(d, acc) ==
    IF d = <<>> THEN acc ELSE Horner(Tail(d), 10 * acc + DigitVal(Head(d)))

\* d is the decimal numeral of the natural number n
IsDecimalOf(d, n) ==
    /\ Len(d) >= 1
    /\ AllDigits(d)
    /\ Len(d) > 1 => d[1] # "0"
    /\ Horner(d, 0) = n

\* d is the signed decimal numeral of the integer n
IsSignedDecimalOf(d, n) ==
    IF n < 0 THEN d # <<>> /\ d[1] = "-" /\ IsDecimalOf(Tail(d), 0 - n)
    ELSE IsDecimalOf(d, n)

\* p is a signed integer of 1 to 18 digits
IsSignedInt(p) ==
    LET d == IF p # <<>> /\ p[1] = "-" THEN Tail(p) ELSE p IN
    Len(d) \in 1..18 /\ AllDigits(d)

SignedValue(p) ==
    IF p[1] = "-" THEN 0 - Horner(Tail(p), 0) ELSE Horner(p, 0)

\* p is a raw string of n text bytes
IsRawStr(p, n) ==
    Len(p) = n /\ \A i \in 1..Len(p) : IsText(p[i]) /\ p[i] # "\n"

\* the input of the last call is some text bytes other than the marker, the
\* marker, a body without terminator or gap, the terminator, and nothing else
Framed ==
    \E p \in 1..Len(call.input) :
        /\ call.input[p] = "*"
        /\ \A q \in 1..(p - 1) : IsText(call.input[q]) /\ call.input[q] # "*"
        /\ call.input[Len(call.input)] = "\r"
        /\ Len(call.input) > p
        /\ \A q \in (p + 1)..(Len(call.input) - 1) :
              call.input[q] # "" /\ call.input[q] # "\r"

MarkerPos == CHOOSE p \in 1..Len(call.input) : 
                 call.input[p] = "*" /\ \A q \in 1..(p - 1) : call.input[q] # "*"

\* the bytes between the start marker and the terminator
Body == SubSeq(call.input, MarkerPos + 1, Len(call.input) - 1)

IdOf(i) == SubSeq(Body, 1, i)
IdentOf(i, j) == SubSeq(Body, i + 1, i + j)
PayloadOf(i, j) == SubSeq(Body, i + j + 1, Len(Body))

\* c with a lower-case letter replaced by its upper-case letter
ToUpper(c) ==
    IF \E i \in 1..26 : LowerSeq[i] = c
    THEN UpperSeq[CHOOSE i \in 1..26 : LowerSeq[i] = c]
    ELSE c

SameIgnoringCase(x, y) ==
    Len(x) = Len(y) /\ \A i \in 1..Len(x) : ToUpper(x[i]) = ToUpper(y[i])

\* the payload the last call asked for
IsPayload(p) ==
    IF call.op = "_read_int" THEN IsSignedInt(p)
    ELSE IsRawStr(p, call.num_chars)

\* b is a reply of the grammar: i digits, j letters, the payload
WellFormedIn(b, i, j) ==
    /\ i \in 1..3 /\ j \in 1..4 /\ i + j <= Len(b)
    /\ AllDigits(SubSeq(b, 1, i)) /\ AllLetters(SubSeq(b, i + 1, i + j))
    /\ IsPayload(SubSeq(b, i + j + 1, Len(b)))

WellFormed(i, j) == WellFormedIn(Body, i, j)

Splits == (1..3) \X (1..4)

\* the last call is a read that found the channel usable
ReadDone ==
    /\ call.op \in {"_read_int", "_read_str"}
    /\ call.err # ErrBus

Returned == call.kind = "return"
Raised(e) == call.kind = "raise" /\ call.err = e /\ call.int = 0 /\ call.str = <<>>

\* ------------------------------------------------------------ claims

\* C1: a send on a usable channel passes exactly one message to bus.write,
\* and its bytes are '#', the decimal numeral of the servo id, the command
\* token, the signed decimal numeral of the parameter when one is given (0 is
\* written "0", an omitted parameter gives no byte), then '\r', with nothing
\* between the fields.
C1_SendBytes ==
    (call.op = "_write" /\ Returned /\ Len(call.param) <= 1) =>
        /\ Len(call.written) = 1
        /\ tx # <<>> /\ tx[Len(tx)] = call.written[1]
        /\ LET m == call.written[1]
               c == Len(call.cmd)
           IN  \E i \in 1..Len(m), k \in 0..Len(m) :
                 /\ Len(m) = 1 + i + c + k + 1
                 /\ m[1] = "#" /\ m[Len(m)] = "\r"
                 /\ IsDecimalOf(SubSeq(m, 2, 1 + i), servo_id[call.self])
                 /\ SubSeq(m, 2 + i, 1 + i + c) = call.cmd
                 /\ IF call.param = <<>> THEN k = 0
                    ELSE IsSignedDecimalOf(SubSeq(m, 2 + i + c, Len(m) - 1),
                                           call.param[1])

C1_Witness ==
    /\ call.op = "_write" /\ Returned
    /\ call.param = <<0>>
    /\ tx = <<<<"#", "2", "5", "4", "D", "0", "\r">>>>

\* C2: a read returns a value only when the bytes it consumed after the start
\* marker begin with a digit run whose value is the servo id of the object,
\* followed by the letters of the expected command (for _read_int: by no
\* further letter).
C2_ReturnOnlyOwnReply ==
    (ReadDone /\ Returned) =>
        \E p \in 1..Len(call.input) :
            /\ call.input[p] = "*"
            /\ \A q \in 1..(p - 1) : call.input[q] # "*"
            /\ LET fr == SubSeq(call.input, p + 1, Len(call.input) - Len(rx))
                   c == Len(call.cmd)
               IN  \E i \in 1..Len(fr) :
                     /\ i + c <= Len(fr)
                     /\ AllDigits(SubSeq(fr, 1, i))
                     /\ Horner(SubSeq(fr, 1, i), 0) = servo_id[call.self]
                     /\ SubSeq(fr, i + 1, i + c) = call.cmd
                     /\ call.op = "_read_int" =>
                           /\ i + c + 1 <= Len(fr)
                           /\ ~IsLetter(fr[i + c + 1])

C2_Witness ==
    /\ ReadDone /\ Returned
    /\ call.op = "_read_str"
    /\ call.str = <<"L", "S", "S", "-", "S", "T", "1">>

\* C3: when the inbound bytes are '*', the decimal numeral of the servo id,
\* the expected command of 1 to 4 letters, a signed integer of 1 to 18 digits
\* and '\r', _read_int returns the value of that integer.
C3_ReadIntValue ==
    (ReadDone /\ call.op = "_read_int" /\ Framed /\ MarkerPos = 1) =>
        \A ij \in Splits :
            (/\ WellFormed(ij[1], ij[2])
             /\ IsDecimalOf(IdOf(ij[1]), servo_id[call.self])
             /\ IdentOf(ij[1], ij[2]) = call.cmd)
            => (Returned /\ call.int = SignedValue(PayloadOf(ij[1], ij[2])))

C3_Witness ==
    /\ ReadDone /\ call.op = "_read_int" /\ Returned
    /\ call.input = <<"*", "2", "5", "4", "Q", "D", "-", "9", "0", "0", "\r">>
    /\ call.int = -900

C6_CaseInsensitive ==
    (ReadDone /\ Framed) =>
        \A ij \in Splits :
            (/\ WellFormed(ij[1], ij[2])
             /\ IsDecimalOf(IdOf(ij[1]), servo_id[call.self])
             /\ SameIgnoringCase(IdentOf(ij[1], ij[2]), call.cmd))
            => /\ Returned
               /\ call.op = "_read_int" =>
                      call.int = SignedValue(PayloadOf(ij[1], ij[2]))
               /\ call.op = "_read_str" =>
                      call.str = PayloadOf(ij[1], ij[2])

\* C7: when the bytes between the start marker and the terminator are not a
\* reply of the grammar (1 to 3 digits, 1 to 4 letters, the payload), a read
\* fails with the malformed-response error, which carries those bytes, and
\* nothing is returned.
C7_Malformed ==
    (ReadDone /\ Framed /\ ~\E ij \in Splits : WellFormed(ij[1], ij[2])) =>
        /\ Raised(ErrMalformed)
        /\ call.raw \in {Body, Body \o <<"\r">>}

\* C8: when bytes follow a well-formed id, command and integer payload before
\* the terminator (here: the id and the command of the request), _read_int
\* fails with the malformed-response error and nothing is returned.
C8_GarbageSurfaced ==
    (/\ ReadDone /\ call.op = "_read_int" /\ Framed
     /\ ~\E ij \in Splits : WellFormed(ij[1], ij[2])
     /\ \E n \in 1..(Len(Body) - 1), ij \in Splits :
          /\ WellFormedIn(SubSeq(Body, 1, n), ij[1], ij[2])
          /\ IsDecimalOf(IdOf(ij[1]), servo_id[call.self])
          /\ IdentOf(ij[1], ij[2]) = call.cmd)
    => Raised(ErrMalformed)

\* C9: the bytes received before the start marker are discarded whatever
\* their value: on a stream that holds a marker and whose reads all find a
\* byte, a read gives the result it gives on the stream without any of its
\* leading runs of bytes other than the marker.
C9_GarbageDiscarded ==
    (/\ ReadDone
     /\ \E q \in 1..Len(call.input) : call.input[q] = "*"
     /\ \A q \in 1..Len(call.input) : call.input[q] # "") =>
        \A n \in 1..Len(call.input) :
            (\A q \in 1..n : call.input[q] # "*") =>
                LET s == SubSeq(call.input, n + 1, Len(call.input))
                    id == servo_id[call.self]
                    r == IF call.op = "_read_int"
                         THEN ReadInt(id, TRUE, TRUE, call.cmd, s)
                         ELSE ReadStr(id, TRUE, TRUE, call.cmd,
                                      call.num_chars, s)
                IN  /\ call.kind = r.kind /\ call.err = r.err
                    /\ call.int = r.int /\ call.str = r.str

\* C10: when a read made while the start marker is still looked for finds no
\* byte, be it the first read or a later one, the call fails with the timeout
\* error (here on streams of text bytes).
C10_EmptyReadTimesOut ==
    (/\ ReadDone
     /\ \A q \in 1..Len(call.input) : call.input[q] # "0xFF"
     /\ \E p \in 1..(Len(call.input) + 1) :
          /\ p <= Len(call.input) => call.input[p] = ""
          /\ \A q \in 1..(p - 1) :
                IsText(call.input[q]) /\ call.input[q] # "*")
    => Raised(ErrTimeout)

\* the start marker was found: it is in the input, after text bytes only,
\* the first of which may be a read that found no byte (see C10)
MarkerFound ==
    \E p \in 1..Len(call.input) :
        /\ call.input[p] = "*"
        /\ \A q \in 1..(p - 1) :
              /\ call.input[q] # "*" /\ call.input[q] # "0xFF"
              /\ call.input[q] = "" => q = 1

\* read_until gave up before a terminator: after the marker the input ends,
\* or has a read that finds no byte, before any '\r'
Unterminated ==
    \E e \in (MarkerPos + 1)..(Len(call.input) + 1) :
        /\ e <= Len(call.input) => call.input[e] = ""
        /\ \A q \in (MarkerPos + 1)..(e - 1) :
              IsText(call.input[q]) /\ call.input[q] # "\r"

\* C11: when the start marker has been found and read_until returns without
\* a terminator (with no byte or with part of a reply), a read fails with the
\* timeout error and returns nothing.
C11_UnterminatedTimesOut ==
    (ReadDone /\ MarkerFound /\ Unterminated) => Raised(ErrTimeout)

\* the body of the input is the numeral of the caller's servo id, the expected
\* command and a payload of n text bytes
OwnReplyOfLen(n) ==
    \E i \in 1..3 :
        /\ i + Len(call.cmd) + n = Len(Body)
        /\ IsDecimalOf(IdOf(i), servo_id[call.self])
        /\ IdentOf(i, Len(call.cmd)) = call.cmd
        /\ \A q \in 1..Len(Body) : IsText(Body[q])

\* C12: for the inbound '*', the numeral of the caller's servo id, the
\* expected command of 1 to 4 letters, a payload of exactly num_chars
\* characters and '\r', _read_str returns the payload as it arrived.
C12_ReadStrVerbatim ==
    (/\ ReadDone /\ call.op = "_read_str" /\ Framed
     /\ Len(call.cmd) \in 1..4
     /\ OwnReplyOfLen(call.num_chars))
    => /\ Returned
       /\ call.str = SubSeq(Body, Len(Body) - call.num_chars + 1, Len(Body))

\* C13: a reply with the caller's servo id and the expected command whose
\* payload has more or fewer characters than num_chars makes _read_str fail
\* with the malformed-response error, and no string is returned.
C13_ReadStrExactLength ==
    (/\ ReadDone /\ call.op = "_read_str" /\ Framed
     /\ \E n \in 0..Len(Body) : n # call.num_chars /\ OwnReplyOfLen(n))
    => Raised(ErrMalformed)

\* the step is a call of _write, _read_int or _read_str
IsIOCall ==
    /\ received' = received
    /\ call'.op \in {"_write", "_read_int", "_read_str"}

\* C14: a call of _write, _read_int or _read_str made while the caller has no
\* bus or the bus is not open fails with the bus error, and it neither writes
\* a byte nor takes one from the inbound stream.
C14_BusRechecked ==
    [][(IsIOCall /\ (bus[call'.self] = "None" \/ ~is_open)) =>
          /\ call'.kind = "raise" /\ call'.err = ErrBus
          /\ call'.written = <<>> /\ tx' = tx
          /\ rx' = rx]_vars

C14_Witness ==
    /\ call.op = "_read_int" /\ Raised(ErrBus)
    /\ bus[call.self] = "serial" /\ ~is_open
    /\ rx # <<>> /\ rx = call.input

\* how many bytes the message of the last _write has, or would have
FrameLength ==
    2 + Len(IntToStr(servo_id[call.self])) + Len(call.cmd)
      + (IF call.param = <<>> THEN 0 ELSE Len(ParamText(call.param)))

\* C15: a _write on a usable bus whose message would be longer than
\* MAX_TOTAL_COMMAND_LENGTH bytes, '\r' included, fails and nothing is
\* written.
C15_FrameLengthLimit ==
    (/\ call.op = "_write" /\ HasBus(call.self) /\ is_open
     /\ FrameLength > MAX_TOTAL_COMMAND_LENGTH)
    => /\ call.kind = "raise"
       /\ call.written = <<>> /\ tx = <<>>

\* the last call read, with the caller's servo id and command, the body of
\* the message _write makes of them and of the optional int parameter p
ReadOwnRequest(p) ==
    /\ call.op = "_read_int" /\ HasBus(call.self)
    /\ tx # <<>>
    /\ tx[1] = Message(servo_id[call.self], call.cmd, p)
    /\ call.input = <<COMMAND_REPLY_START>> \o Tail(tx[1])

\* C16: for a servo id, a command token of the command tables and an int
\* parameter, given or omitted, reading back the body of the message that
\* _write produces is accepted as a reply of that servo and command, and
\* gives the parameter back.
C16_RoundTrip ==
    \A p \in {q \in EncodeParams : Len(q) <= 1} :
        ReadOwnRequest(p) =>
            /\ Returned
            /\ p # <<>> => call.int = p[1]

\* C17: when a session makes the same query twice in a row, the servo
\* answering each request with one reply of its unchanged state, both calls
\* return, and they return the same value.
C17_QueryIdempotent ==
    [][(/\ call.op = "query" /\ call'.op = "query"
        /\ tx # <<>> /\ Len(tx') = Len(tx) + 1
        /\ tx'[Len(tx')] = tx[Len(tx)]
        /\ call'.self = call.self /\ call'.cmd = call.cmd)
       => /\ call.kind = "return" /\ call'.kind = "return"
          /\ call'.int = call.int]_vars

C17_Witness ==
    /\ call.op = "query" /\ Returned /\ call.int = -900
    /\ call.cmd = POSITION_PULSE
    /\ Len(tx) = 2 /\ tx[1] = tx[2]
    /\ received = 1

\* C18: the channel's timeout is TIMEOUT_MS once the objects are constructed
\* and stays so whatever is sent, read or torn down; the servo id and the
\* bus of every object stay what the constructor was given.
C18_TimeoutAndBindingFixed ==
    /\ timeout = TIMEOUT_MS
    /\ \A o \in LSSObjects :
          /\ servo_id[o] = InitArgs[o].servo_id
          /\ bus[o] = InitArgs[o].bus

C18_Witness ==
    /\ call.op = "__del__" /\ ~is_open
    /\ tx # <<>> /\ received > 0
    /\ timeout = TIMEOUT_MS
    /\ servo_id[call.self] = InitArgs[call.self].servo_id

\* the step is a call of __del__
IsDelCall == received' = received /\ call'.op = "__del__"

\* C19: __del__ closes the bus, once, when the object has a bus and it is
\* open; when the bus is closed already or the object has none, __del__
\* closes nothing; it never raises.
C19_DelClosesOnce ==
    [][IsDelCall =>
          /\ call'.kind = "return"
          /\ IF bus[call'.self] # "None" /\ is_open
             THEN call'.int = 1 /\ ~is_open'
             ELSE call'.int = 0 /\ is_open' = is_open]_vars

C19_Witness ==
    /\ call.op = "__del__" /\ Returned /\ call.int = 0
    /\ bus[call.self] = "serial" /\ ~is_open

\* C20: an object never closes the bus it was given: the bus stays open
\* whatever the two objects that share it do, the __del__ of one of them
\* included, and no _write, _read_int or _read_str of an object that has the
\* bus fails with the bus error.
C20_BusNeverClosed ==
    /\ is_open
    /\ (call.op \in {"_write", "_read_int", "_read_str"}
           /\ bus[call.self] # "None") => call.err # ErrBus

\* the last step was a public operation
IsPublicOp == call.op \in QueryOps \cup SendOps

\* the channel of the object that made the last call can be used
ChannelAvailable == bus[call.self] # "None" /\ is_open

\* C21: no silent fallback: when the send or the read inside a public
\* operation failed (bus unavailable, timeout, malformed reply, wrong servo,
\* command mismatch), the operation ends in an error its caller sees; it
\* does not return a value.
C21_NoSilentFallback ==
    (IsPublicOp /\ call.inner # "") => call.kind = "raise"

\* C22: a query operation on a channel that can be used writes once, then
\* makes one read attempt, and nothing more whatever the read gave (a value
\* or any error); a send-only operation writes once and does not read; on
\* a channel that cannot be used an operation fails before any of it.
C22_OneWriteThenOneRead ==
    /\ (call.op \in QueryOps /\ ChannelAvailable)
          => /\ call.io = <<"write", "read">>
             /\ Len(call.written) = 1
             /\ tx # <<>> /\ tx[Len(tx)] = call.written[1]
    /\ (call.op \in SendOps /\ ChannelAvailable)
          => /\ call.io = <<"write">>
             /\ Len(call.written) = 1
             /\ tx # <<>> /\ tx[Len(tx)] = call.written[1]
    /\ (IsPublicOp /\ ~ChannelAvailable)
          => call.io = <<>> /\ call.written = <<>>

C22_Witness ==
    /\ call.op = "get_status" /\ ChannelAvailable
    /\ call.kind = "raise" /\ call.err = ErrTimeout
    /\ call.io = <<"write", "read">>
    /\ Len(tx) = 2

\* C23: get_first_position_deg returns 0 when the servo answers the QFD
\* query with the marker of a disabled first position, "DIS".
C23_DisabledGivesZero ==
    (/\ call.op = "get_first_position_deg" /\ ChannelAvailable
     /\ call.input = ReplyFrame(servo_id[call.self], Query.FIRST_POSITION,
                                FIRST_POSITION_DISABLED))
       => call.kind = "return" /\ call.str = <<"0", ".", "0">>

\* C24: every wire token of the action, query and configuration tables is
\* 1 to 4 uppercase ASCII letters, the bound of the command field of the
\* reply grammar: each token _write sends has that form, and a reply frame
\* that carries the token is read back by _read_int.
C24_TokenLetters ==
    /\ call.op = "_write"
          => /\ Len(call.cmd) \in 1..IdentLetters
             /\ \A i \in 1..Len(call.cmd) : call.cmd[i] \in UpperChars
    /\ (/\ call.op = "_read_int"
        /\ call.input = ReplyFrame(servo_id[call.self], call.cmd, <<"0">>))
          => call.kind = "return" /\ call.int = 0

\* the error kinds of _read_int and _read_str
ErrorKinds ==
    {ErrBus, ErrTimeout, ErrMalformed, ErrWrongId, ErrMismatch, ErrComm}

\* the call has come to an end, with a value or with an error of the kinds
CallEnded ==
    IF call.op = "none" THEN FALSE
    ELSE /\ call.pc = "done"
         /\ \/ call.kind = "return"
            \/ call.kind = "raise" /\ call.err \in ErrorKinds

\* C25: on an open channel whose inbound stream is finite and followed by
\* read timeouts, and whose read_until returns, every call of _read_int and
\* of _read_str that is under way comes to an end, with a value returned or
\* one of the error kinds raised; the discard loop goes on only as long as
\* bytes that are not the marker keep arriving.
C25_ReadTerminates == (call.kind = "running") ~> CallEnded

C25_Witness ==
    /\ call.op = "_read_int" /\ call.pc = "done"
    /\ call.kind = "raise" /\ call.err = ErrTimeout
    /\ Len(call.input) = 3 /\ received = MaxChunks
    /\ call.c = "" /\ rx = <<>>

\* the requests of the history that carry the id of the session of the
\* last call
OwnRequests ==
    {k \in 1..Len(tx) :
        \E cmd \in SharedCmds :
           tx[k] = Message(servo_id[call.self], cmd, <<>>)}

\* C26: the value a request returns is the payload of the servo's reply to
\* that very request: a query that returns gives the value of the reply to
\* the request it wrote, the last of the history, never the value of the
\* reply to an earlier request, also when the earlier request timed out
\* and its reply came afterwards.
C26_ReplyOfThisRequest ==
    (call.op = "query" /\ call.kind = "return")
       => /\ tx # <<>> /\ tx[Len(tx)] = call.written[1]
          /\ call.int = Len(tx)

\* C27: two sessions of different ids share the line and their writes and
\* reads interleave: a read that returns gives the payload of a reply frame
\* that carries the id of the reading session, never one of a reply to the
\* other session's request; every other read raises.
C27_OwnAddressOnly ==
    call.op = "_read_int"
       => \/ call.kind = "return" /\ call.int \in OwnRequests
          \/ call.kind = "raise" /\ call.err \in ErrorKinds

C27_Witness ==
    /\ call.op = "_read_int" /\ call.kind = "return"
    /\ call.self = "b" /\ call.int = 2
    /\ Len(tx) = 2 /\ tx[1] = Message(servo_id["a"], call.cmd, <<>>)
    /\ rx = <<>>

====
